---- MODULE Spec2Model ----
(***************************************************************************)
(* Model of the learn-a-maze simulation engine:                            *)
(*   - MazeGenerator (src/services/MazeGenerator.ts): seeded depth-first   *)
(*     carving of a width x height grid;                                   *)
(*   - QLearningAgent (src/services/QLearningAgent.ts): tabular Q-learning *)
(*     with an epsilon-greedy policy.                                      *)
(*                                                                         *)
(* Spec      : one MazeGenerator of fixed dimensions; generate() runs as   *)
(*             GenerateBegin, one CarveStep per loop iteration, and        *)
(*             GenerateEnd.                                                *)
(* SpecUpdate, SpecChoose, SpecCaller : one QLearningAgent and one QTable  *)
(*             object its caller owns, under a caller that trains it, one  *)
(*             that asks it for actions, and one that loads its table and  *)
(*             goes on changing it.                                        *)
(* SpecRows  : the same agent under a caller that uses every operation.    *)
(* SpecDecay : an agent whose curiosity is decayed in a loop of            *)
(*             DecayCalls calls, each call that is due being made.         *)
(*                                                                         *)
(* JavaScript numbers that hold fractions (alpha, gamma, epsilon, rewards, *)
(* Q-values) are fixed-point integers in units of 1/Scale; a product is    *)
(* rounded down to the unit.  Arrays are 0-based in the source and 1-based *)
(* here: grid[y][x] is grid[y + 1][x + 1], qValues[a] is row[a + 1].       *)
(***************************************************************************)
EXTENDS Integers, Sequences, FiniteSets, TLC

\* ------------------------------------------------------------------ bounds
\* Largest width and height of a generated maze.
MaxDim == 8
\* Most generate() calls followed in one behaviour.
MaxCalls == 3
\* Fixed-point resolution: a fractional number v is the integer v * Scale.
Scale == 1000
\* Math.random() returns one of 0/RandDen .. (RandDen - 1)/RandDen.
RandDen == 4
\* Largest x of a position handed to the agent.
MaxCoord == 1
\* Most update() calls, decayCuriosity() calls and mutations of the caller's
\* table followed in one behaviour.
MaxUpdates == 1
MaxDecays == 1
MaxKeyCoord == 11
MaxRunSteps == 5
MaxEpisodes == 2
MaxCallerOps == 2

VARIABLES
    \* MazeGenerator
    width, height,   \* this.width, this.height
    seed,            \* this.rng.seed
    grid,            \* generate(): const grid
    stack,           \* generate(): const stack
    visited,         \* generate(): const visited
    pc,              \* where the generator is: idle, carve, returned, error
    result,          \* the grid the last completed generate() returned
    returned,        \* every grid generate() has returned for these dimensions
    calls,           \* generate() calls begun so far
    instCalls,       \* generate() calls begun on the current instance
    \* QLearningAgent
    qTable,          \* this.qTable: state key -> reference to a row
    heap,            \* the number[] rows alive, by reference
    alpha, gamma, epsilon, initialEpsilon, minEpsilon, decayRate,
    \* the caller of the agent
    callerTable,     \* a QTable object the caller owns: state key -> reference
    lastOp,          \* the last agent operation: name, arguments, return value
    nUpdates,        \* update() calls so far
    nDecays,         \* decayCuriosity() calls so far
    nCallerOps,      \* mutations of callerTable so far
    \* App
    startPos, goalPos,   \* the state values startPos and goalPos
    agentPos,            \* agentPosInternal.current
    sim,                 \* simInternalState.current
    gridInternal,        \* gridInternal.current
    exploredCells,       \* exploredCellsInternal.current
    appPc,               \* unmounted, or ready once the mount effect has run
    agentCalls,          \* the agent methods the last handler called, in order
    nRunSteps,           \* runStep() calls so far
    randomStub           \* what Math.random() returns when it is stubbed

mazeVars == <<width, height, seed, grid, stack, visited, pc, result, returned,
              calls, instCalls>>

params == <<alpha, gamma, epsilon, initialEpsilon, minEpsilon, decayRate>>

agentVars == <<qTable, heap, params, callerTable, lastOp, nUpdates, nDecays,
               nCallerOps>>

appVars == <<startPos, goalPos, agentPos, sim, gridInternal, exploredCells,
             appPc, agentCalls, nRunSteps, randomStub>>

vars == <<mazeVars, agentVars, appVars>>

\* ---------------------------------------------------------- SeededRandom
RngSeed == 555
RngMul == 9301
RngInc == 49297
RngMod == 233280

\* (s * RngMul + RngInc) % RngMod. The product s * 9301 is exact in a
\* JavaScript number but exceeds TLC's 32-bit integers when s > 230885, so
\* it is taken in two parts: 9301 = 93 * 100 + 1.
NextSeed(s) ==
    ((((s * (RngMul \div 100)) % RngMod) * 100) + s * (RngMul % 100) + RngInc) % RngMod

\* Math.ceil(this.rng.next() * n)
RandomIndexCeil(s, n) == (s * n + RngMod - 1) \div RngMod

\* Math.floor(this.rng.next() * n), where next() returned s / 233280.
RandomIndex(s, n) == (s * n) \div RngMod

\* ------------------------------------------------------------- positions
\* The template literal `${x},${y}`.
PosKey(x, y) == ToString(x) \o "," \o ToString(y)

Pos(x, y) == [x |-> x, y |-> y]

\* ---------------------------------------------------------- MazeGenerator
\* Array.from({length: height}, (_, y) => Array.from({length: width},
\*   (_, x) => ({x, y, isWall: true}))), swapped coordinates.
InitialGridSwapped(w, h) ==
    [r \in 1..h |-> [c \in 1..w |-> [x |-> r - 1, y |-> c - 1, isWall |-> TRUE]]]

InitialGrid(w, h) ==
    [r \in 1..h |-> [c \in 1..w |-> [x |-> c - 1, y |-> r - 1, isWall |-> TRUE]]]

\* grid[y][x] exists.
InGrid(g, x, y) == y + 1 \in DOMAIN g /\ x + 1 \in DOMAIN g[y + 1]

\* grid[y][x].isWall = false
Clear(g, x, y) == [g EXCEPT ![y + 1][x + 1].isWall = FALSE]

IsWall(g, x, y) == g[y + 1][x + 1].isWall

directions == << Pos(0, -2), Pos(2, 0), Pos(0, 2), Pos(-2, 0) >>

\* The candidate of direction d, filtered to the grid instead of its interior.
NeighborInLoose(pos, vis, d) ==
    LET nx == pos.x + d.x
        ny == pos.y + d.y
    IN  IF /\ nx >= 0 /\ nx < width
           /\ ny >= 0 /\ ny < height
           /\ PosKey(nx, ny) \notin vis
        THEN << Pos(nx, ny) >>
        ELSE << >>

\* The candidate of direction d, or the empty sequence when it is filtered out.
NeighborIn(pos, vis, d) ==
    LET nx == pos.x + d.x
        ny == pos.y + d.y
    IN  IF /\ nx > 0 /\ nx < width - 1
           /\ ny > 0 /\ ny < height - 1
           /\ PosKey(nx, ny) \notin vis
        THEN << Pos(nx, ny) >>
        ELSE << >>

\* The candidates without the one below (dx: 0, dy: 2).
getUnvisitedNeighborsNoDown(pos, vis) ==
    NeighborIn(pos, vis, directions[1]) \o NeighborIn(pos, vis, directions[2])
        \o NeighborIn(pos, vis, directions[4])

getUnvisitedNeighbors(pos, vis) ==
    NeighborIn(pos, vis, directions[1]) \o NeighborIn(pos, vis, directions[2])
        \o NeighborIn(pos, vis, directions[3]) \o NeighborIn(pos, vis, directions[4])

startNode == Pos(1, 1)

\* generate() up to the carving loop, with the generator starting from seed s.
BeginWith(s) ==
    /\ pc \in {"idle", "returned", "error"}
    /\ calls < MaxCalls
    /\ calls' = calls + 1
    /\ instCalls' = instCalls + 1
    /\ seed' = s
    /\ IF InGrid(InitialGrid(width, height), startNode.x, startNode.y)
       THEN /\ grid' = Clear(InitialGrid(width, height), startNode.x, startNode.y)
            /\ stack' = << startNode >>
            /\ visited' = {PosKey(startNode.x, startNode.y)}
            /\ pc' = "carve"
       ELSE \* grid[1] or grid[1][1] is undefined: TypeError
            /\ grid' = InitialGrid(width, height)
            /\ stack' = << >>
            /\ visited' = {}
            /\ pc' = "error"
    /\ UNCHANGED <<width, height, result, returned>>

\* generate() that keeps the generator's current state instead of reseeding.
GenerateBeginStale == BeginWith(seed)

GenerateBegin == BeginWith(RngSeed)

\* An iteration that leaves the stack as it is when there is no candidate.
CarveStepNoPop ==
    /\ pc = "carve"
    /\ Len(stack) > 0
    /\ LET current == stack[Len(stack)]
           neighbors == getUnvisitedNeighbors(current, visited)
       IN  IF Len(neighbors) > 0
           THEN LET s1 == NextSeed(seed)
                    next == neighbors[RandomIndex(s1, Len(neighbors)) + 1]
                    wallX == (current.x + next.x) \div 2
                    wallY == (current.y + next.y) \div 2
                IN  /\ seed' = s1
                    /\ grid' = Clear(Clear(grid, wallX, wallY), next.x, next.y)
                    /\ visited' = visited \cup {PosKey(next.x, next.y)}
                    /\ stack' = Append(stack, next)
           ELSE UNCHANGED <<seed, grid, visited, stack>>
    /\ UNCHANGED <<width, height, pc, result, returned, calls, instCalls>>

\* One iteration of while (stack.length > 0).
CarveStep ==
    /\ pc = "carve"
    /\ Len(stack) > 0
    /\ LET current == stack[Len(stack)]
           neighbors == getUnvisitedNeighbors(current, visited)
       IN  IF Len(neighbors) > 0
           THEN LET s1 == NextSeed(seed)
                    next == neighbors[RandomIndex(s1, Len(neighbors)) + 1]
                    wallX == (current.x + next.x) \div 2
                    wallY == (current.y + next.y) \div 2
                IN  /\ seed' = s1
                    /\ grid' = Clear(Clear(grid, wallX, wallY), next.x, next.y)
                    /\ visited' = visited \cup {PosKey(next.x, next.y)}
                    /\ stack' = Append(stack, next)
           ELSE /\ stack' = SubSeq(stack, 1, Len(stack) - 1)
                /\ UNCHANGED <<seed, grid, visited>>
    /\ UNCHANGED <<width, height, pc, result, returned, calls, instCalls>>

\* The start corner without grid[1][0].
CarveCornersPartial(g, w, h) ==
    Clear(Clear(Clear(Clear(Clear(Clear(Clear(g,
        0, 0), 1, 0), 1, 1),
        w - 1, h - 1), w - 1, h - 2), w - 2, h - 1), w - 2, h - 2)

\* Lines 69-78: the two 2x2 corner blocks.
CarveCorners(g, w, h) ==
    Clear(Clear(Clear(Clear(Clear(Clear(Clear(Clear(g,
        0, 0), 1, 0), 0, 1), 1, 1),
        w - 1, h - 1), w - 1, h - 2), w - 2, h - 1), w - 2, h - 2)

\* The loop has ended: carve the corners and return the grid.
GenerateEnd ==
    /\ pc = "carve"
    /\ Len(stack) = 0
    /\ grid' = CarveCorners(grid, width, height)
    /\ result' = grid'
    /\ returned' = returned \cup {grid'}
    /\ pc' = "returned"
    /\ UNCHANGED <<width, height, seed, stack, visited, calls, instCalls>>

\* new MazeGenerator(width, height) with the same dimensions.
NewMazeGenerator ==
    /\ pc \in {"returned", "error"}
    /\ seed' = RngSeed
    /\ pc' = "idle"
    /\ instCalls' = 0
    /\ UNCHANGED <<width, height, grid, stack, visited, result, returned, calls>>

MazeInit ==
    /\ width \in 1..MaxDim
    /\ height \in 1..MaxDim
    /\ seed = RngSeed
    /\ grid = << >>
    /\ stack = << >>
    /\ visited = {}
    /\ pc = "idle"
    /\ result = << >>
    /\ returned = {}
    /\ calls = 0
    /\ instCalls = 0

\* --------------------------------------------------------- QLearningAgent
\* Action.UP = 0, RIGHT = 1, DOWN = 2, LEFT = 3; this.actions lists them.
actions == << 0, 1, 2, 3 >>
Actions == {actions[i] : i \in 1..Len(actions)}

\* Positions handed to the agent.
Positions == { Pos(x, 0) : x \in 0..MaxCoord }

\* Parameters and rewards handed to the agent: 0.1 and 0.5; 0.9; 0 and 1;
\* -1 and 10.
AlphaSet == {Scale \div 10, Scale \div 2}
GammaSet == {(9 * Scale) \div 10}
EpsilonSet == {0, Scale}
Rewards == {-Scale, 10 * Scale}

\* Values of Math.random(), as numerators over RandDen.
Rand == 0..(RandDen - 1)

\* a * b for fixed-point a and b.
Mul(a, b) == (a * b) \div Scale

\* [0, 0, 0, 0]
ZeroRow == << 0, 0, 0, 0 >>

\* `${pos.x}${pos.y}`, the comma left out.
getStateKeyNoSep(pos) == ToString(pos.x) \o ToString(pos.y)

getStateKey(pos) == ToString(pos.x) \o "," \o ToString(pos.y)

Keys == { getStateKey(p) : p \in Positions }

\* obj[k] = v on an object held as a function.
Put(obj, k, v) == [x \in (DOMAIN obj) \cup {k} |-> IF x = k THEN v ELSE obj[x]]

\* delete obj[k]
Delete(obj, k) == [x \in (DOMAIN obj) \ {k} |-> obj[x]]

Range(f) == { f[x] : x \in DOMAIN f }

\* The reference of a newly allocated array.
NewRef(h) == CHOOSE i \in 1..(Cardinality(DOMAIN h) + 1) :
                 /\ i \notin DOMAIN h
                 /\ \A j \in 1..(i - 1) : j \in DOMAIN h

\* The rows still referenced from the agent's table t or the caller's table c.
Collect(h, t, c) == [i \in (DOMAIN h) \cap (Range(t) \cup Range(c)) |-> h[i]]

\* Math.max(...row)
RECURSIVE MaxFrom(_, _)
MaxFrom(row, i) ==
    IF i = Len(row) THEN row[i]
    ELSE LET m == MaxFrom(row, i + 1) IN IF row[i] > m THEN row[i] ELSE m

MaxOf(row) == MaxFrom(row, 1)

Store(t, h) == [t |-> t, h |-> h]

\* getQValues(pos) without the test for a stored row: a new row every time.
getQValuesStoreAlways(st, pos) ==
    LET ref == NewRef(st.h)
    IN  Store(Put(st.t, getStateKey(pos), ref), Put(st.h, ref, ZeroRow))

\* getQValues(pos): the table and rows it leaves.
getQValuesStore(st, pos) ==
    LET key == getStateKey(pos)
    IN  IF key \notin DOMAIN st.t
        THEN LET ref == NewRef(st.h)
             IN  Store(Put(st.t, key, ref), Put(st.h, ref, ZeroRow))
        ELSE st

\* getQValues(pos): the reference it returns.
getQValuesRef(st, pos) == getQValuesStore(st, pos).t[getStateKey(pos)]

\* Math.random() <= this.epsilon
ExploresInclusive(r, eps) == r * Scale <= eps * RandDen

\* Math.random() < this.epsilon
Explores(r, eps) == r * Scale < eps * RandDen

\* Math.floor(Math.random() * (n - 1))
RandomPickShort(r, n) == (r * (n - 1)) \div RandDen

\* Math.floor(Math.random() * n)
RandomPick(r, n) == (r * n) \div RandDen

\* this.actions.filter(a => qValues[a] === maxQ)
bestActions(qValues) ==
    LET maxQ == MaxOf(qValues)
    IN  SelectSeq(actions, LAMBDA a : qValues[a + 1] = maxQ)

\* What chooseAction(pos) returns on table st when Math.random() yields r1
\* and then r2.
chooseActionResult(st, eps, pos, r1, r2) ==
    IF Explores(r1, eps)
    THEN actions[RandomPick(r2, Len(actions)) + 1]
    ELSE LET st1 == getQValuesStore(st, pos)
             qValues == st1.h[getQValuesRef(st, pos)]
             best == bestActions(qValues)
         IN  best[RandomPick(r2, Len(best)) + 1]

\* oldQ + alpha * (reward + gamma * maxNextQ), the old value not subtracted.
BellmanNoDecay(oldQ, reward, maxNextQ) ==
    oldQ + Mul(alpha, reward + Mul(gamma, maxNextQ))

\* oldQ + alpha * (reward - oldQ), the value of the next state left out.
BellmanNoFuture(oldQ, reward, maxNextQ) ==
    oldQ + Mul(alpha, reward - oldQ)

\* Line 59.
Bellman(oldQ, reward, maxNextQ) ==
    oldQ + Mul(alpha, reward + Mul(gamma, maxNextQ) - oldQ)

\* The row replaced by a new one that holds newQ alone.
WriteQFresh(h, ref, action, newQ) ==
    [h EXCEPT ![ref] = [i \in 1..4 |-> IF i = action + 1 THEN newQ ELSE 0]]

\* currentQValues.push(newQ)
WriteQAppend(h, ref, action, newQ) == [h EXCEPT ![ref] = Append(h[ref], newQ)]

\* currentQValues[action] = newQ
WriteQ(h, ref, action, newQ) == [h EXCEPT ![ref][action + 1] = newQ]

NoOp == [op |-> "none", pos |-> Pos(0, 0), action |-> 0, reward |-> 0,
         next |-> Pos(0, 0), args |-> << >>, ret |-> 0]

Called(name, pos, ret) == [NoOp EXCEPT !.op = name, !.pos = pos, !.ret = ret]

Installed(st) ==
    /\ qTable' = st.t
    /\ heap' = Collect(st.h, st.t, callerTable)

getQValues(pos) ==
    LET st == getQValuesStore(Store(qTable, heap), pos)
    IN  /\ Installed(st)
        /\ lastOp' = Called("getQValues", pos, st.h[getQValuesRef(Store(qTable, heap), pos)])
        /\ UNCHANGED <<params, callerTable, nUpdates, nDecays, nCallerOps>>

\* The numbers of row in ascending order.
SortedRow(row) ==
    CHOOSE s \in [1..Len(row) -> Range(row)] :
        /\ \A i \in 1..(Len(row) - 1) : s[i] <= s[i + 1]
        /\ \A v \in Range(row) :
              Cardinality({i \in 1..Len(row) : s[i] = v}) =
                  Cardinality({i \in 1..Len(row) : row[i] = v})

\* getMaxQ(pos) that sorts the stored row in place and returns its last number.
getMaxQSorting(pos) ==
    LET st == getQValuesStore(Store(qTable, heap), pos)
        ref == getQValuesRef(Store(qTable, heap), pos)
    IN  /\ Installed(Store(st.t, [st.h EXCEPT ![ref] = SortedRow(st.h[ref])]))
        /\ lastOp' = Called("getMaxQ", pos, MaxOf(st.h[ref]))
        /\ UNCHANGED <<params, callerTable, nUpdates, nDecays, nCallerOps>>

\* Math.max(0, ...this.getQValues(pos))
getMaxQClamped(pos) ==
    LET st == getQValuesStore(Store(qTable, heap), pos)
        m == MaxOf(st.h[getQValuesRef(Store(qTable, heap), pos)])
    IN  /\ Installed(st)
        /\ lastOp' = Called("getMaxQ", pos, IF m > 0 THEN m ELSE 0)
        /\ UNCHANGED <<params, callerTable, nUpdates, nDecays, nCallerOps>>

getMaxQ(pos) ==
    LET st == getQValuesStore(Store(qTable, heap), pos)
    IN  /\ Installed(st)
        /\ lastOp' = Called("getMaxQ", pos, MaxOf(st.h[getQValuesRef(Store(qTable, heap), pos)]))
        /\ UNCHANGED <<params, callerTable, nUpdates, nDecays, nCallerOps>>

\* chooseAction(pos): the table and rows it leaves when Math.random() first
\* yields r1.
chooseActionStore(st, eps, pos, r1) ==
    IF Explores(r1, eps) THEN st ELSE getQValuesStore(st, pos)

chooseAction(pos, r1, r2) ==
    LET st0 == Store(qTable, heap)
    IN  /\ Installed(chooseActionStore(st0, epsilon, pos, r1))
        /\ lastOp' = Called("chooseAction", pos,
                            chooseActionResult(st0, epsilon, pos, r1, r2))
        /\ UNCHANGED <<params, callerTable, nUpdates, nDecays, nCallerOps>>

\* update(state, action, reward, nextState): the table and rows it leaves.
updateStore(st0, state, action, reward, nextState) ==
    LET st1 == getQValuesStore(st0, state)
        currentQValues == getQValuesRef(st0, state)
        oldQ == st1.h[currentQValues][action + 1]
        st2 == getQValuesStore(st1, nextState)
        maxNextQ == MaxOf(st2.h[getQValuesRef(st1, nextState)])
        newQ == Bellman(oldQ, reward, maxNextQ)
        h3 == WriteQ(st2.h, currentQValues, action, newQ)
        t3 == Put(st2.t, getStateKey(state), currentQValues)
    IN  Store(t3, h3)

\* What a call of update is recorded as.
UpdateCall(state, action, reward, nextState) ==
    [op |-> "update", pos |-> state, action |-> action, reward |-> reward,
     next |-> nextState, args |-> << >>, ret |-> 0]

\* update(), for a caller that makes at most limit calls.
updateWithin(limit, state, action, reward, nextState) ==
    /\ nUpdates < limit
    /\ nUpdates' = nUpdates + 1
    /\ Installed(updateStore(Store(qTable, heap), state, action, reward, nextState))
    /\ lastOp' = UpdateCall(state, action, reward, nextState)
    /\ UNCHANGED <<params, callerTable, nDecays, nCallerOps>>

update(state, action, reward, nextState) ==
    updateWithin(MaxUpdates, state, action, reward, nextState)

\* Math.min in place of Math.max.
DecayedMin(eps) ==
    IF minEpsilon < Mul(eps, decayRate) THEN minEpsilon ELSE Mul(eps, decayRate)

\* this.epsilon * this.decayRate, without the floor.
DecayedNoFloor(eps) == Mul(eps, decayRate)

\* Math.max(this.minEpsilon, eps * this.decayRate)
Decayed(eps) ==
    IF minEpsilon > Mul(eps, decayRate) THEN minEpsilon ELSE Mul(eps, decayRate)

\* decayCuriosity(), for a caller that makes at most limit calls.
decayCuriosityWithin(limit) ==
    /\ nDecays < limit
    /\ nDecays' = nDecays + 1
    /\ epsilon' = Decayed(epsilon)
    /\ lastOp' = Called("decayCuriosity", Pos(0, 0), 0)
    /\ UNCHANGED <<qTable, heap, alpha, gamma, initialEpsilon, minEpsilon,
                   decayRate, callerTable, nUpdates, nCallerOps>>

decayCuriosity == decayCuriosityWithin(MaxDecays)

\* this.qTable = {} without the epsilon reset.
resetQTableKeepEpsilon ==
    /\ Installed(Store(<< >>, heap))
    /\ lastOp' = Called("resetQTable", Pos(0, 0), 0)
    /\ UNCHANGED <<params, callerTable, nUpdates, nDecays, nCallerOps>>

resetQTable ==
    /\ Installed(Store(<< >>, heap))
    /\ epsilon' = initialEpsilon
    /\ lastOp' = Called("resetQTable", Pos(0, 0), 0)
    /\ UNCHANGED <<alpha, gamma, initialEpsilon, minEpsilon, decayRate,
                   callerTable, nUpdates, nDecays, nCallerOps>>

\* setParameters that leaves the current epsilon alone.
setParametersKeepEpsilon(a, g, e) ==
    /\ alpha' = a
    /\ gamma' = g
    /\ initialEpsilon' = e
    /\ lastOp' = [Called("setParameters", Pos(0, 0), 0) EXCEPT !.args = <<a, g, e>>]
    /\ UNCHANGED <<qTable, heap, epsilon, minEpsilon, decayRate, callerTable,
                   nUpdates, nDecays, nCallerOps>>

setParameters(a, g, e) ==
    /\ alpha' = a
    /\ gamma' = g
    /\ initialEpsilon' = e
    /\ epsilon' = e
    /\ lastOp' = [Called("setParameters", Pos(0, 0), 0) EXCEPT !.args = <<a, g, e>>]
    /\ UNCHANGED <<qTable, heap, minEpsilon, decayRate, callerTable, nUpdates,
                   nDecays, nCallerOps>>

\* { ...newQTable }: a new object with newQTable's keys, each holding the
\* same reference as in newQTable.
SpreadCopy(newQTable) == [k \in DOMAIN newQTable |-> newQTable[k]]

\* Object.assign(this.qTable, newQTable): the rows stored before are kept.
setQTableMerge ==
    /\ Installed(Store([k \in (DOMAIN qTable) \cup (DOMAIN callerTable) |->
                           IF k \in DOMAIN callerTable THEN callerTable[k]
                           ELSE qTable[k]], heap))
    /\ lastOp' = Called("setQTable", Pos(0, 0), 0)
    /\ UNCHANGED <<params, callerTable, nUpdates, nDecays, nCallerOps>>

setQTable ==
    /\ Installed(Store(SpreadCopy(callerTable), heap))
    /\ lastOp' = Called("setQTable", Pos(0, 0), 0)
    /\ UNCHANGED <<params, callerTable, nUpdates, nDecays, nCallerOps>>

\* ------------------------------------------------------------- the caller
\* The row a caller stores under a new key: [1, 2, 3, 4].
CallerRow == << Scale, 2 * Scale, 3 * Scale, 4 * Scale >>

\* The number a caller writes into a row: 99.
CallerValue == 99 * Scale

CallerStep ==
    /\ nCallerOps < MaxCallerOps
    /\ nCallerOps' = nCallerOps + 1
    /\ lastOp' = Called("caller", Pos(0, 0), 0)
    /\ UNCHANGED <<qTable, params, nUpdates, nDecays>>

\* newQTable[k] = [1, 2, 3, 4]
CallerPut(k) ==
    /\ CallerStep
    /\ LET ref == NewRef(heap)
       IN  /\ callerTable' = Put(callerTable, k, ref)
           /\ heap' = Collect(Put(heap, ref, CallerRow), qTable, callerTable')

\* delete newQTable[k]
CallerDelete(k) ==
    /\ k \in DOMAIN callerTable
    /\ CallerStep
    /\ callerTable' = Delete(callerTable, k)
    /\ heap' = Collect(heap, qTable, callerTable')

\* newQTable[k][i] = 99
CallerWrite(k, i) ==
    /\ k \in DOMAIN callerTable
    /\ CallerStep
    /\ heap' = [heap EXCEPT ![callerTable[k]][i + 1] = CallerValue]
    /\ UNCHANGED callerTable

\* Tables a caller builds before it hands one to setQTable: rows of distinct
\* arrays, as JSON.parse or an object literal makes them.
\* {"0,0": [5, 0, 0, 0]} and {"0,0": [-5, -2, -8, -3], "1,0": [0.5, 0.5, 0.1, 0.1]}.
SampleTables ==
    { << << getStateKey(Pos(0, 0)), << 5 * Scale, 0, 0, 0 >> >> >>,
      << << getStateKey(Pos(0, 0)), << -5 * Scale, -2 * Scale, -8 * Scale, -3 * Scale >> >>,
         << getStateKey(Pos(1, 0)),
            << Scale \div 2, Scale \div 2, Scale \div 10, Scale \div 10 >> >> >> }

\* new QLearningAgent(a, g, e); the caller holds one of the sample tables,
\* its i-th row in the array of reference i.
AgentInit ==
    /\ qTable = << >>
    /\ \E sample \in SampleTables :
          /\ callerTable = [k \in {sample[i][1] : i \in DOMAIN sample} |->
                               CHOOSE i \in DOMAIN sample : sample[i][1] = k]
          /\ heap = [i \in DOMAIN sample |-> sample[i][2]]
    /\ alpha \in AlphaSet
    /\ gamma \in GammaSet
    /\ epsilon \in EpsilonSet
    /\ initialEpsilon = epsilon
    /\ minEpsilon = Scale \div 100
    /\ decayRate = (995 * Scale) \div 1000
    /\ lastOp = NoOp
    /\ nUpdates = 0
    /\ nDecays = 0
    /\ nCallerOps = 0

\* The agent the maze specification leaves untouched.
AgentIdle ==
    /\ qTable = << >>
    /\ heap = << >>
    /\ alpha = Scale \div 10
    /\ gamma = (9 * Scale) \div 10
    /\ epsilon = Scale \div 10
    /\ initialEpsilon = Scale \div 10
    /\ minEpsilon = Scale \div 100
    /\ decayRate = (995 * Scale) \div 1000
    /\ callerTable = << >>
    /\ lastOp = NoOp
    /\ nUpdates = 0
    /\ nDecays = 0
    /\ nCallerOps = 0

\* The generator the agent specification leaves untouched.
MazeIdle ==
    /\ width = 3
    /\ height = 3
    /\ seed = RngSeed
    /\ grid = << >>
    /\ stack = << >>
    /\ visited = {}
    /\ pc = "idle"
    /\ result = << >>
    /\ returned = {}
    /\ calls = 0
    /\ instCalls = 0

\* -------------------------------------------------------------- the App
MAZE_SIZE == 15
MAX_STEPS == 2000

DEFAULT_START == Pos(0, 0)
DEFAULT_GOAL == Pos(MAZE_SIZE - 1, MAZE_SIZE - 1)

\* 0.1, 0.9 and 0.2
DEFAULT_ALPHA == Scale \div 10
DEFAULT_GAMMA == (9 * Scale) \div 10
DEFAULT_EPSILON == (2 * Scale) \div 10

\* bestStepCount: null is the empty sequence, a number n is << n >>.
FreshState ==
    [episode |-> 1, step |-> 0, totalReward |-> 0, epsilon |-> DEFAULT_EPSILON,
     isGoalReached |-> FALSE, bestStepCount |-> << >>]

\* The App before its mount effect has run.
AppUnmounted ==
    /\ startPos = DEFAULT_START
    /\ goalPos = DEFAULT_GOAL
    /\ agentPos = DEFAULT_START
    /\ sim = FreshState
    /\ gridInternal = << >>
    /\ exploredCells = {}
    /\ appPc = "unmounted"
    /\ agentCalls = << >>
    /\ nRunSteps = 0

\* The App the generator and agent specifications leave untouched.
AppIdle == AppUnmounted /\ randomStub = 0

\* -1, -100 and 1000
StepReward == -1
WallReward == -100
GoalReward == 1000

\* The cell the action leads to: UP is y - 1, RIGHT is x + 1, DOWN is y + 1,
\* LEFT is x - 1, with the axes mixed up.
nextOfSwapped(pos, action) ==
    IF action = actions[1] THEN Pos(pos.x - 1, pos.y)
    ELSE IF action = actions[2] THEN Pos(pos.x, pos.y + 1)
    ELSE IF action = actions[3] THEN Pos(pos.x + 1, pos.y)
    ELSE Pos(pos.x, pos.y - 1)

\* nextX and nextY after the four ifs on the action.
nextOf(pos, action) ==
    IF action = actions[1] THEN Pos(pos.x, pos.y - 1)
    ELSE IF action = actions[2] THEN Pos(pos.x + 1, pos.y)
    ELSE IF action = actions[3] THEN Pos(pos.x, pos.y + 1)
    ELSE IF action = actions[4] THEN Pos(pos.x - 1, pos.y)
    ELSE pos

outOfBounds(nextX, nextY) ==
    nextX < 0 \/ nextX >= MAZE_SIZE \/ nextY < 0 \/ nextY >= MAZE_SIZE

\* hitWall without the look at the grid.
hitWallBoundsOnly(g, nextX, nextY) == outOfBounds(nextX, nextY)

\* outOfBounds || grid[nextY][nextX].isWall
hitWall(g, nextX, nextY) == outOfBounds(nextX, nextY) \/ IsWall(g, nextX, nextY)

\* s.step > MAX_STEPS in place of >=.
EpisodeOverLate(s) == s.isGoalReached \/ s.step > MAX_STEPS

\* s.isGoalReached || s.step >= MAX_STEPS
EpisodeOver(s) == s.isGoalReached \/ s.step >= MAX_STEPS

DecayCall == Called("decayCuriosity", Pos(0, 0), 0)

\* The episode end that leaves the decay out.
EndEpisodeNoDecay ==
    /\ agentCalls' = << >>
    /\ agentPos' = startPos
    /\ sim' = [episode |-> sim.episode + 1, step |-> 0, totalReward |-> 0,
               epsilon |-> epsilon, isGoalReached |-> FALSE,
               bestStepCount |->
                  IF sim.isGoalReached
                  THEN IF sim.bestStepCount = << >> \/ sim.step < sim.bestStepCount[1]
                       THEN << sim.step >> ELSE sim.bestStepCount
                  ELSE sim.bestStepCount]
    /\ exploredCells' = {PosKey(startPos.x, startPos.y)}
    /\ UNCHANGED <<agentVars>>

\* The first branch of runStep: the episode is over.
EndEpisode ==
    /\ epsilon' = Decayed(epsilon)
    /\ nDecays' = nDecays + 1
    /\ lastOp' = DecayCall
    /\ agentCalls' = << DecayCall >>
    /\ agentPos' = startPos
    /\ sim' = [episode |-> sim.episode + 1, step |-> 0, totalReward |-> 0,
               epsilon |-> epsilon', isGoalReached |-> FALSE,
               bestStepCount |->
                  IF sim.isGoalReached
                  THEN IF sim.bestStepCount = << >> \/ sim.step < sim.bestStepCount[1]
                       THEN << sim.step >> ELSE sim.bestStepCount
                  ELSE sim.bestStepCount]
    /\ exploredCells' = {PosKey(startPos.x, startPos.y)}
    /\ UNCHANGED <<qTable, heap, alpha, gamma, initialEpsilon, minEpsilon,
                   decayRate, callerTable, nUpdates, nCallerOps>>

\* The rest of runStep: one transition, Math.random() yielding r1 and r2.
Transition(r1, r2) ==
    LET pos == agentPos
        st0 == Store(qTable, heap)
        action == chooseActionResult(st0, epsilon, pos, r1, r2)
        st1 == chooseActionStore(st0, epsilon, pos, r1)
        target == nextOf(pos, action)
        hit == hitWall(gridInternal, target.x, target.y)
        reached == ~hit /\ target.x = goalPos.x /\ target.y = goalPos.y
        reward == IF hit THEN WallReward ELSE IF reached THEN GoalReward ELSE StepReward
        finalNextPos == IF hit THEN pos ELSE target
        st2 == updateStore(st1, pos, action, reward * Scale, finalNextPos)
    IN  /\ Installed(st2)
        /\ nUpdates' = nUpdates + 1
        /\ lastOp' = UpdateCall(pos, action, reward * Scale, finalNextPos)
        /\ agentCalls' = << Called("chooseAction", pos, action),
                            UpdateCall(pos, action, reward * Scale, finalNextPos) >>
        /\ agentPos' = finalNextPos
        /\ sim' = [sim EXCEPT !.step = @ + 1, !.totalReward = @ + reward,
                              !.isGoalReached = reached]
        /\ exploredCells' = exploredCells \cup {PosKey(finalNextPos.x, finalNextPos.y)}
        /\ UNCHANGED <<params, callerTable, nDecays, nCallerOps>>

runStep(r1, r2) ==
    /\ appPc = "ready"
    /\ nRunSteps' = nRunSteps + 1
    /\ IF EpisodeOver(sim) THEN EndEpisode ELSE Transition(r1, r2)
    /\ UNCHANGED <<startPos, goalPos, gridInternal, appPc, randomStub, mazeVars>>

\* resetRunner(): position, explored cells, agent and simulation state.
resetRunner ==
    /\ agentPos' = startPos
    /\ exploredCells' = {PosKey(startPos.x, startPos.y)}
    /\ Installed(Store(<< >>, heap))
    /\ alpha' = DEFAULT_ALPHA
    /\ gamma' = DEFAULT_GAMMA
    /\ initialEpsilon' = DEFAULT_EPSILON
    /\ epsilon' = DEFAULT_EPSILON
    /\ lastOp' = [Called("setParameters", Pos(0, 0), 0)
                     EXCEPT !.args = <<DEFAULT_ALPHA, DEFAULT_GAMMA, DEFAULT_EPSILON>>]
    /\ agentCalls' = << Called("resetQTable", Pos(0, 0), 0), lastOp' >>
    /\ sim' = FreshState
    /\ UNCHANGED <<minEpsilon, decayRate, callerTable, nUpdates, nDecays, nCallerOps>>

\* The mount effect, once generate() has returned staticMaze.
AppMount ==
    /\ appPc = "unmounted"
    /\ pc = "returned"
    /\ gridInternal' = result
    /\ resetRunner
    /\ appPc' = "ready"
    /\ UNCHANGED <<startPos, goalPos, nRunSteps, randomStub, mazeVars>>

\* Goals the designer hands back: the default one and a cell near the start.
GoalChoices == {DEFAULT_GOAL, Pos(1, 1)}

\* onSave(newGrid, newStart, newGoal) of the designer, the grid and the start
\* handed back as they were.
DesignerSave(newGoal) ==
    /\ appPc = "ready"
    /\ gridInternal' = gridInternal
    /\ startPos' = startPos
    /\ goalPos' = newGoal
    /\ resetRunner
    /\ UNCHANGED <<appPc, nRunSteps, randomStub, mazeVars>>

\* new MazeGenerator(MAZE_SIZE, MAZE_SIZE) and
\* new QLearningAgent(DEFAULT_ALPHA, DEFAULT_GAMMA, DEFAULT_EPSILON).
AppRefs ==
    /\ width = MAZE_SIZE
    /\ height = MAZE_SIZE
    /\ seed = RngSeed
    /\ grid = << >>
    /\ stack = << >>
    /\ visited = {}
    /\ pc = "idle"
    /\ result = << >>
    /\ returned = {}
    /\ calls = 0
    /\ instCalls = 0
    /\ qTable = << >>
    /\ heap = << >>
    /\ alpha = DEFAULT_ALPHA
    /\ gamma = DEFAULT_GAMMA
    /\ epsilon = DEFAULT_EPSILON
    /\ initialEpsilon = DEFAULT_EPSILON
    /\ minEpsilon = Scale \div 100
    /\ decayRate = (995 * Scale) \div 1000
    /\ callerTable = << >>
    /\ lastOp = NoOp
    /\ nUpdates = 0
    /\ nDecays = 0
    /\ nCallerOps = 0

\* mazeGen.current.generate() of the mount effect.
MountGenerate ==
    \/ appPc = "unmounted" /\ pc = "idle" /\ GenerateBegin
    \/ CarveStep
    \/ GenerateEnd

\* ------------------------------------------------------- specifications
Init == MazeInit /\ AgentIdle /\ AppIdle

Next ==
    \/ GenerateBegin /\ UNCHANGED <<agentVars, appVars>>
    \/ CarveStep /\ UNCHANGED <<agentVars, appVars>>
    \/ GenerateEnd /\ UNCHANGED <<agentVars, appVars>>
    \/ NewMazeGenerator /\ UNCHANGED <<agentVars, appVars>>

Spec == Init /\ [][Next]_vars

\* generate() runs on: an iteration or a return that is due is made.
SpecLive == Init /\ [][Next]_vars /\ WF_vars(Next)

InitAgent == AgentInit /\ MazeIdle /\ AppIdle

\* new QLearningAgent(a, g, 1) for a caller that only trains.
InitUpdate == InitAgent /\ epsilon = Scale

\* A caller that trains the agent: update() and the table operations.
NextUpdate ==
    \/ \E state \in Positions : \E action \in Actions : \E reward \in Rewards :
          \E nextState \in Positions :
             update(state, action, reward, nextState) /\ UNCHANGED <<mazeVars, appVars>>
    \/ \E pos \in Positions : getQValues(pos) /\ UNCHANGED <<mazeVars, appVars>>
    \/ resetQTable /\ UNCHANGED <<mazeVars, appVars>>
    \/ setQTable /\ UNCHANGED <<mazeVars, appVars>>

SpecUpdate == InitUpdate /\ [][NextUpdate]_vars

\* A caller that asks the agent for actions on tables it has loaded.
NextChoose ==
    \/ \E pos \in Positions : \E r1 \in Rand : \E r2 \in Rand :
          chooseAction(pos, r1, r2) /\ UNCHANGED <<mazeVars, appVars>>
    \/ \E pos \in Positions : getQValues(pos) /\ UNCHANGED <<mazeVars, appVars>>
    \/ \E pos \in Positions : getMaxQ(pos) /\ UNCHANGED <<mazeVars, appVars>>
    \/ decayCuriosity /\ UNCHANGED <<mazeVars, appVars>>
    \/ resetQTable /\ UNCHANGED <<mazeVars, appVars>>
    \/ setQTable /\ UNCHANGED <<mazeVars, appVars>>
    \/ \E a \in AlphaSet : \E g \in GammaSet : \E e \in EpsilonSet :
          setParameters(a, g, e) /\ UNCHANGED <<mazeVars, appVars>>

SpecChoose == InitAgent /\ [][NextChoose]_vars

\* A caller that loads its table into the agent and goes on changing it.
NextCaller ==
    \/ setQTable /\ UNCHANGED <<mazeVars, appVars>>
    \/ \E k \in Keys : CallerPut(k) /\ UNCHANGED <<mazeVars, appVars>>
    \/ \E k \in Keys : CallerDelete(k) /\ UNCHANGED <<mazeVars, appVars>>
    \/ \E k \in Keys : \E i \in Actions : CallerWrite(k, i) /\ UNCHANGED <<mazeVars, appVars>>
    \/ \E pos \in Positions : getQValues(pos) /\ UNCHANGED <<mazeVars, appVars>>
    \/ resetQTable /\ UNCHANGED <<mazeVars, appVars>>

SpecCaller == InitAgent /\ [][NextCaller]_vars

\* new QLearningAgent(0.5, 0.9, 0) for a caller that uses every operation and
\* holds the sample table of two rows.
InitRows ==
    /\ InitAgent
    /\ alpha = Scale \div 2
    /\ epsilon = 0
    /\ Cardinality(DOMAIN callerTable) = 2

\* A caller that uses every operation of the agent, in any order. It writes
\* with update() at the first and at the last index of a row, rewards 10,
\* and Math.random() yields the same value twice in chooseAction.
NextRows ==
    \/ \E pos \in Positions : getQValues(pos) /\ UNCHANGED <<mazeVars, appVars>>
    \/ \E pos \in Positions : getMaxQ(pos) /\ UNCHANGED <<mazeVars, appVars>>
    \/ \E pos \in Positions : \E r \in Rand :
          chooseAction(pos, r, r) /\ UNCHANGED <<mazeVars, appVars>>
    \/ \E state \in Positions : \E action \in {actions[1], actions[Len(actions)]} :
          \E nextState \in Positions :
             update(state, action, 10 * Scale, nextState) /\ UNCHANGED <<mazeVars, appVars>>
    \/ decayCuriosity /\ UNCHANGED <<mazeVars, appVars>>
    \/ resetQTable /\ UNCHANGED <<mazeVars, appVars>>
    \/ setParameters(Scale \div 2, (9 * Scale) \div 10, 0) /\ UNCHANGED <<mazeVars, appVars>>
    \/ setQTable /\ UNCHANGED <<mazeVars, appVars>>

SpecRows == InitRows /\ [][NextRows]_vars

\* The loop of 1000 decayCuriosity() calls.
DecayCalls == 1000

\* Values assigned to agent.epsilon and agent.decayRate before decaying:
\* 1.0, 0.5 and 0.02; 0.995 and 0.5.
DecayStarts == {Scale, Scale \div 2, (2 * Scale) \div 100}
DecayRates == {(995 * Scale) \div 1000, Scale \div 2}

\* An agent whose epsilon and decayRate have been set, about to be decayed.
InitDecay ==
    /\ MazeIdle
    /\ AppIdle
    /\ qTable = << >>
    /\ heap = << >>
    /\ callerTable = << >>
    /\ alpha = Scale \div 10
    /\ gamma = (9 * Scale) \div 10
    /\ epsilon \in DecayStarts
    /\ initialEpsilon = epsilon
    /\ minEpsilon = Scale \div 100
    /\ decayRate \in DecayRates
    /\ lastOp = NoOp
    /\ nUpdates = 0
    /\ nDecays = 0
    /\ nCallerOps = 0

\* A caller that decays the agent's curiosity again and again.
NextDecay == decayCuriosityWithin(DecayCalls) /\ UNCHANGED <<mazeVars, appVars>>

\* The loop runs to its end: every call that is due is made.
SpecDecay == InitDecay /\ [][NextDecay]_vars /\ WF_vars(NextDecay)

\* A caller that updates rows whose coordinates have one and two digits, on
\* the agent of the test suite: new QLearningAgent(0.1, 0.9, 0.1).
KeyCoords == {0, 1, MaxKeyCoord - 1, MaxKeyCoord}

KeyPositions == { Pos(x, y) : x \in KeyCoords, y \in KeyCoords }

InitKey == AgentIdle /\ MazeIdle /\ AppIdle

NextKey ==
    \E state \in KeyPositions : \E nextState \in KeyPositions :
       update(state, actions[2], -Scale, nextState) /\ UNCHANGED <<mazeVars, appVars>>

SpecKey == InitKey /\ [][NextKey]_vars

\* The training loop of the test suite: for (let i = 0; i < 100; i++)
\* { update(start, RIGHT, -1, {1,0}); update({1,0}, RIGHT, 100, goal) }.
TrainIterations == 100

InitTrain == AgentIdle /\ MazeIdle /\ AppIdle

TrainStart ==
    /\ nUpdates % 2 = 0
    /\ updateWithin(2 * TrainIterations, Pos(0, 0), actions[2], -Scale, Pos(1, 0))
    /\ UNCHANGED <<mazeVars, appVars>>

TrainMiddle ==
    /\ nUpdates % 2 = 1
    /\ updateWithin(2 * TrainIterations, Pos(1, 0), actions[2], 100 * Scale, Pos(2, 0))
    /\ UNCHANGED <<mazeVars, appVars>>

NextTrain == TrainStart \/ TrainMiddle

SpecTrain == InitTrain /\ [][NextTrain]_vars

\* The App with Math.random() free: the mount effect, the designer and a
\* bounded number of runStep() calls.
InitApp == AppRefs /\ AppIdle

NextApp ==
    \/ MountGenerate /\ UNCHANGED <<agentVars, appVars>>
    \/ AppMount
    \/ \E newGoal \in GoalChoices : DesignerSave(newGoal)
    \/ /\ nRunSteps < MaxRunSteps
       /\ \E r1 \in Rand : \E r2 \in Rand : runStep(r1, r2)

SpecApp == InitApp /\ [][NextApp]_vars

\* The App with Math.random() stubbed to return one value, its smallest or
\* its largest, run for whole episodes.
RandomStubs == {0, RandDen - 1}

InitAppLong == AppRefs /\ AppUnmounted /\ randomStub \in RandomStubs

NextAppLong ==
    \/ MountGenerate /\ UNCHANGED <<agentVars, appVars>>
    \/ AppMount
    \/ sim.episode <= MaxEpisodes /\ runStep(randomStub, randomStub)

SpecAppLong == InitAppLong /\ [][NextAppLong]_vars

\* ================================================================ claims
\* The cells of g that a walk of orthogonal steps over non-wall cells reaches
\* from the cells of S.
RECURSIVE Flood(_, _)
Flood(g, S) ==
    LET N == { p \in (0..(Len(g[1]) - 1)) \X (0..(Len(g) - 1)) :
                 /\ p \notin S
                 /\ ~IsWall(g, p[1], p[2])
                 /\ \E q \in S : \/ q[1] = p[1] /\ (q[2] - p[2]) \in {-1, 1}
                                 \/ q[2] = p[2] /\ (q[1] - p[1]) \in {-1, 1} }
    IN  IF N = {} THEN S ELSE Flood(g, S \cup N)

SameWalls(g1, g2) ==
    /\ DOMAIN g1 = DOMAIN g2
    /\ \A r \in DOMAIN g1 :
          /\ DOMAIN g1[r] = DOMAIN g2[r]
          /\ \A c \in DOMAIN g1[r] : g1[r][c].isWall = g2[r][c].isWall

\* C1: for fixed width and height every generate() call, on the same instance
\* or on a fresh one, returns a grid with the same isWall value at every (x, y).
C1_Deterministic ==
    \A g1 \in returned : \A g2 \in returned : SameWalls(g1, g2)

\* The third call has returned: the second instance's second call, on a
\* maze in which the carving makes random choices.
C1_Witness ==
    /\ pc = "returned" /\ calls = 3 /\ instCalls = 2
    /\ width >= 5 /\ height >= 5

\* C2: in every returned grid the eight cells of the two 2x2 corner blocks
\* are non-wall.
C2_CornersOpen ==
    pc = "returned" =>
        \A p \in { <<0, 0>>, <<1, 0>>, <<0, 1>>, <<1, 1>>,
                    <<width - 1, height - 1>>, <<width - 2, height - 1>>,
                    <<width - 1, height - 2>>, <<width - 2, height - 2>> } :
            ~IsWall(result, p[1], p[2])

\* A returned grid whose carving cannot reach the boundary cells of the
\* corner blocks.
C2_Witness == pc = "returned" /\ width >= 5 /\ height >= 4

\* C3: for width >= 3 and height >= 3 the goal cell (width-1, height-1) is
\* reachable from (0,0) over orthogonally adjacent non-wall cells of the
\* returned grid.
C3_GoalReachable ==
    (pc = "returned" /\ width >= 3 /\ height >= 3) =>
        <<width - 1, height - 1>> \in Flood(result, {<<0, 0>>})

\* C4: generate() never fails for width >= 1 and height >= 1, and what it
\* returns is a fully populated grid.
C4_NeverFails ==
    /\ pc # "error"
    /\ pc = "returned" =>
          /\ Len(result) = height
          /\ \A r \in 1..height : Len(result[r]) = width

\* C5: the returned grid has height rows of width cells, and the cell at
\* grid[y][x] carries that x and y.
C5_Coordinates ==
    pc = "returned" =>
        /\ DOMAIN result = 1..height
        /\ \A r \in 1..height :
              /\ DOMAIN result[r] = 1..width
              /\ \A c \in 1..width :
                    result[r][c].x = c - 1 /\ result[r][c].y = r - 1

C5_Witness == pc = "returned" /\ width = 5 /\ height = 3

\* The agent's table by value: state key -> the four numbers stored for it.
AgentTable == [k \in DOMAIN qTable |-> heap[qTable[k]]]

\* The four numbers stored for pos, all zero when pos has no row.
StoredRow(pos) ==
    IF getStateKey(pos) \in DOMAIN qTable THEN AgentTable[getStateKey(pos)] ELSE ZeroRow

\* The largest number of a row.
Largest(row) == CHOOSE v \in Range(row) : \A w \in Range(row) : v >= w

\* The actions whose value in row is the largest.
ArgMax(row) == { a \in Actions : \A b \in Actions : row[a + 1] >= row[b + 1] }

\* Every value chooseAction(pos) can return in the current state.
ChooseOutcomes(pos) ==
    { chooseActionResult(Store(qTable, heap), epsilon, pos, r1, r2) :
        r1 \in Rand, r2 \in Rand }

\* C6: update(state, action, reward, nextState) stores
\* oldQ + alpha * (reward + gamma * M - oldQ) for (state, action), oldQ and M
\* (the largest value of nextState's row) read before the call, 0 for an
\* absent row, also when nextState = state.
C6_Bellman ==
    [][ nUpdates' = nUpdates + 1 =>
          LET s == lastOp'.pos
              a == lastOp'.action
              r == lastOp'.reward
              n == lastOp'.next
              oldQ == StoredRow(s)[a + 1]
              M == Largest(StoredRow(n))
          IN  /\ lastOp'.op = "update"
              /\ AgentTable'[getStateKey(s)][a + 1] =
                    oldQ + ((alpha * (r + ((gamma * M) \div Scale) - oldQ)) \div Scale)
      ]_vars

\* update((0,0), UP, 10, (0,0)) on the row [5, 0, 0, 0] with alpha = 0.1 and
\* gamma = 0.9 has stored 5 + 0.1 * (10 + 0.9 * 5 - 5) = 5.95.
C6_Witness ==
    /\ lastOp.op = "update"
    /\ lastOp.pos = Pos(0, 0) /\ lastOp.next = Pos(0, 0) /\ lastOp.action = 0
    /\ lastOp.reward = 10 * Scale
    /\ alpha = Scale \div 10
    /\ getStateKey(Pos(0, 0)) \in DOMAIN qTable
    /\ AgentTable[getStateKey(Pos(0, 0))] = << (595 * Scale) \div 100, 0, 0, 0 >>

\* C7: update(state, action, ...) changes the entry at index action of
\* state's row and nothing else of the table, except that it may create an
\* all-zero row for nextState; the six parameters keep their values.
C7_UpdateFrame ==
    [][ nUpdates' = nUpdates + 1 =>
          LET s == lastOp'.pos
              a == lastOp'.action
              n == lastOp'.next
          IN  /\ lastOp'.op = "update"
              /\ DOMAIN qTable' = (DOMAIN qTable) \cup {getStateKey(s), getStateKey(n)}
              /\ \A k \in (DOMAIN qTable') \ {getStateKey(s)} :
                    AgentTable'[k] = IF k \in DOMAIN qTable THEN AgentTable[k] ELSE ZeroRow
              /\ \A i \in Actions \ {a} :
                    AgentTable'[getStateKey(s)][i + 1] = StoredRow(s)[i + 1]
              /\ UNCHANGED params
      ]_vars

\* An update has acted on a table of two rows, one of them with several
\* non-zero entries.
C7_Witness ==
    /\ lastOp.op = "update"
    /\ Cardinality(DOMAIN qTable) = 2
    /\ Cardinality({ i \in 1..4 : StoredRow(lastOp.pos)[i] # 0 }) >= 3

\* C8: with epsilon = 0 the values chooseAction(pos) can return are exactly
\* the actions whose stored value is the largest of pos's row (all four for an
\* absent or all-zero row), and what it returned is one of them.
C8_Exploit ==
    epsilon = 0 =>
        /\ \A pos \in Positions : ChooseOutcomes(pos) = ArgMax(StoredRow(pos))
        /\ lastOp.op = "chooseAction" => lastOp.ret \in ArgMax(StoredRow(lastOp.pos))

\* chooseAction has returned with epsilon = 0 on a row with one largest value.
C8_Witness ==
    /\ epsilon = 0
    /\ lastOp.op = "chooseAction"
    /\ Cardinality(ArgMax(StoredRow(lastOp.pos))) = 1
    /\ StoredRow(lastOp.pos) # ZeroRow

\* C9: with epsilon = 1 chooseAction(pos) always explores: every value of
\* Math.random() is below epsilon, each of the four actions is a possible
\* result whatever the row holds, and what it returned is one of the four.
C9_Explore ==
    epsilon = Scale =>
        /\ \A r \in Rand : Explores(r, epsilon)
        /\ \A pos \in Positions : ChooseOutcomes(pos) = {0, 1, 2, 3}
        /\ lastOp.op = "chooseAction" => lastOp.ret \in {0, 1, 2, 3}

\* chooseAction has returned, with epsilon = 1, an action that is not among
\* the best of a stored row.
C9_Witness ==
    /\ epsilon = Scale
    /\ lastOp.op = "chooseAction"
    /\ getStateKey(lastOp.pos) \in DOMAIN qTable
    /\ lastOp.ret \notin ArgMax(StoredRow(lastOp.pos))

\* C10: setQTable(table) stores a deep copy: no later mutation of the
\* caller's table (a key added or removed, a number changed inside a row)
\* changes the agent's table.
C10_CopyIsolation ==
    [][ nCallerOps' = nCallerOps + 1 => AgentTable' = AgentTable ]_vars

\* C11: decayCuriosity() never raises epsilon: epsilon after the call is at
\* most epsilon before the call, whatever the constructor, setParameters,
\* resetQTable or earlier decays have set it to.
C11_DecayNonIncreasing ==
    [][ nDecays' = nDecays + 1 => epsilon' <= epsilon ]_vars

\* C12: after decayCuriosity() epsilon is the larger of minEpsilon and the
\* previous epsilon times decayRate, hence at least minEpsilon.
C12_DecayMax ==
    [][ nDecays' = nDecays + 1 =>
          LET product == (epsilon * decayRate) \div Scale
          IN  /\ lastOp'.op = "decayCuriosity"
              /\ epsilon' >= minEpsilon
              /\ epsilon' >= product
              /\ epsilon' \in {minEpsilon, product}
      ]_vars

\* One decay of epsilon = 0.5 by decayRate = 0.995 has left 0.5 * 0.995.
C12_Witness ==
    /\ lastOp.op = "decayCuriosity"
    /\ nDecays = 1
    /\ initialEpsilon = Scale \div 2
    /\ decayRate = (995 * Scale) \div 1000
    /\ epsilon = ((Scale \div 2) * ((995 * Scale) \div 1000)) \div Scale
    /\ epsilon > minEpsilon

CallerTable == [k \in DOMAIN callerTable |-> heap[callerTable[k]]]

\* The operations that read the table or set parameters.
ReadOps == {"getQValues", "getMaxQ", "chooseAction", "decayCuriosity", "setParameters"}

\* C14: getQValues(pos) for an absent key returns [0, 0, 0, 0] and adds
\* exactly that key with that row; for a present key it returns the stored
\* row and leaves the table unchanged.
C14_LazyRow ==
    [][ lastOp'.op = "getQValues" =>
          LET k == getStateKey(lastOp'.pos)
          IN  IF k \in DOMAIN qTable
              THEN /\ lastOp'.ret = AgentTable[k]
                   /\ AgentTable' = AgentTable
              ELSE /\ lastOp'.ret = << 0, 0, 0, 0 >>
                   /\ DOMAIN qTable' = (DOMAIN qTable) \cup {k}
                   /\ AgentTable'[k] = << 0, 0, 0, 0 >>
                   /\ \A j \in DOMAIN qTable : AgentTable'[j] = AgentTable[j]
      ]_vars

\* getQValues has returned [0, 0, 0, 0] for a key it added beside a stored
\* row of other numbers.
C14_Witness ==
    /\ lastOp.op = "getQValues"
    /\ lastOp.ret = << 0, 0, 0, 0 >>
    /\ Cardinality(DOMAIN qTable) = 2
    /\ \E k \in DOMAIN qTable : AgentTable[k] # << 0, 0, 0, 0 >>

\* C15 as stated: getQValues, getMaxQ, chooseAction, decayCuriosity and
\* setParameters leave the table's key set and every stored value unchanged.
C15_ReadOnly ==
    [][ lastOp'.op \in ReadOps => AgentTable' = AgentTable ]_vars

\* C15 as amended: those operations remove no key and change no stored
\* value; getQValues, getMaxQ and chooseAction may add the key of the
\* position asked about, with an all-zero row, and nothing else;
\* decayCuriosity and setParameters leave the table as it is.
C15_ReadOnlyUpToZeroRows ==
    [][ lastOp'.op \in ReadOps =>
          /\ (DOMAIN qTable) \subseteq (DOMAIN qTable')
          /\ (DOMAIN qTable') \subseteq ((DOMAIN qTable) \cup {getStateKey(lastOp'.pos)})
          /\ \A k \in DOMAIN qTable : AgentTable'[k] = AgentTable[k]
          /\ \A k \in (DOMAIN qTable') \ (DOMAIN qTable) :
                AgentTable'[k] = << 0, 0, 0, 0 >>
          /\ lastOp'.op \in {"decayCuriosity", "setParameters"} =>
                AgentTable' = AgentTable
      ]_vars

\* getMaxQ has added an all-zero row beside a stored row of other numbers.
C15_Witness ==
    /\ lastOp.op = "getMaxQ"
    /\ Cardinality(DOMAIN qTable) = 2
    /\ AgentTable[getStateKey(lastOp.pos)] = << 0, 0, 0, 0 >>
    /\ \E k \in DOMAIN qTable : AgentTable[k] # << 0, 0, 0, 0 >>

\* C17: resetQTable() leaves the table empty and epsilon equal to
\* initialEpsilon; alpha, gamma, initialEpsilon, minEpsilon and decayRate
\* keep their values.
C17_Reset ==
    [][ lastOp'.op = "resetQTable" =>
          /\ DOMAIN qTable' = {}
          /\ epsilon' = initialEpsilon
          /\ UNCHANGED <<alpha, gamma, initialEpsilon, minEpsilon, decayRate>>
      ]_vars

\* resetQTable has acted after a decay: the table is empty and epsilon is
\* back at initialEpsilon = 1.
C17_Witness ==
    /\ lastOp.op = "resetQTable"
    /\ nDecays = 1
    /\ DOMAIN qTable = {}
    /\ epsilon = Scale /\ initialEpsilon = Scale

\* C18: setParameters(a, g, e) sets alpha = a, gamma = g, initialEpsilon = e
\* and epsilon = e; the table, minEpsilon and decayRate keep their values.
C18_SetParameters ==
    [][ lastOp'.op = "setParameters" =>
          /\ alpha' = lastOp'.args[1]
          /\ gamma' = lastOp'.args[2]
          /\ initialEpsilon' = lastOp'.args[3]
          /\ epsilon' = lastOp'.args[3]
          /\ AgentTable' = AgentTable
          /\ UNCHANGED <<minEpsilon, decayRate>>
      ]_vars

\* setParameters(0.5, 0.9, 0) has acted on an agent holding a table, after
\* a decay.
C18_Witness ==
    /\ lastOp.op = "setParameters"
    /\ lastOp.args = << Scale \div 2, (9 * Scale) \div 10, 0 >>
    /\ alpha = Scale \div 2 /\ epsilon = 0 /\ initialEpsilon = 0
    /\ nDecays = 1
    /\ Cardinality(DOMAIN qTable) = 2

\* C19: setQTable(table) leaves the agent's table equal in keys and values
\* to the table provided, no row stored before remaining, and the six
\* parameters keep their values.
C19_SetQTable ==
    [][ lastOp'.op = "setQTable" =>
          /\ AgentTable' = CallerTable
          /\ UNCHANGED params
      ]_vars

\* setQTable has replaced the agent's table by the caller's one-row table,
\* on an agent whose epsilon a decay has moved away from initialEpsilon.
C19_Witness ==
    /\ lastOp.op = "setQTable"
    /\ AgentTable = CallerTable
    /\ Cardinality(DOMAIN qTable) = 1
    /\ epsilon # initialEpsilon

\* C20: getMaxQ(pos) returns the largest of the four values stored for pos,
\* also when all four are negative, and 0 for a position that has no row.
C20_MaxQ ==
    [][ lastOp'.op = "getMaxQ" =>
          LET k == getStateKey(lastOp'.pos)
          IN  IF k \in DOMAIN qTable
              THEN /\ lastOp'.ret \in Range(AgentTable[k])
                   /\ \A i \in 1..4 : lastOp'.ret >= AgentTable[k][i]
              ELSE lastOp'.ret = 0
      ]_vars

\* getMaxQ has returned -2 for the row [-5, -2, -8, -3].
C20_Witness ==
    /\ lastOp.op = "getMaxQ"
    /\ lastOp.ret = -2 * Scale
    /\ AgentTable[getStateKey(lastOp.pos)] =
           << -5 * Scale, -2 * Scale, -8 * Scale, -3 * Scale >>

\* C16: after any sequence of agent operations from a fresh agent, with
\* setQTable given tables whose rows have four values, every key of the
\* table holds a row of exactly four values.
C16_RowsOfFour ==
    \A k \in DOMAIN qTable : Len(heap[qTable[k]]) = Cardinality(Actions)

\* An update has written into a row of a table that holds a lazily added
\* row and a row setQTable loaded.
C16_Witness ==
    /\ lastOp.op = "update"
    /\ Cardinality(DOMAIN qTable) = 2
    /\ \E k \in DOMAIN qTable : Cardinality(Range(AgentTable[k])) >= 3

\* (x, y) lies strictly inside the outer boundary.
Interior(x, y) == 0 < x /\ x < width - 1 /\ 0 < y /\ y < height - 1

\* (x, y) belongs to one of the two 2x2 corner blocks.
InCornerBlock(x, y) ==
    \/ x \in {0, 1} /\ y \in {0, 1}
    \/ x \in {width - 1, width - 2} /\ y \in {height - 1, height - 2}

\* The cells of the grid, as (x, y).
Cells == (0..(width - 1)) \X (0..(height - 1))

\* C27: the carving loop terminates: every iteration either marks one new
\* position visited and pushes it, or pops the stack; no position is on the
\* stack twice; and the loop, once begun, ends with generate() returning.
C27_CarvingTerminates ==
    /\ [][ (pc = "carve" /\ pc' = "carve") =>
             \/ /\ Cardinality(visited') = Cardinality(visited) + 1
                /\ visited \subseteq visited'
                /\ Len(stack') = Len(stack) + 1
                /\ SubSeq(stack', 1, Len(stack)) = stack
                /\ PosKey(stack'[Len(stack')].x, stack'[Len(stack')].y)
                      \in visited' \ visited
             \/ /\ visited' = visited
                /\ Len(stack) > 0
                /\ stack' = SubSeq(stack, 1, Len(stack) - 1)
       ]_vars
    /\ [](\A i \in 1..Len(stack) : \A j \in 1..Len(stack) :
             stack[i] = stack[j] => i = j)
    /\ (pc = "carve" ~> pc = "returned")

\* generate() has returned a maze whose carving pushed and popped many
\* positions.
C27_Witness ==
    /\ pc = "returned"
    /\ width >= 7 /\ height >= 7
    /\ Len(stack) = 0
    /\ Cardinality(visited) >= 9

\* C28: carving stays strictly inside the interior: the candidates of
\* getUnvisitedNeighbors are interior, the loop clears interior cells only
\* (the start node (1,1) is cleared before it), and in the returned grid
\* every boundary cell outside the two corner blocks is a wall.
C28_InteriorCarving ==
    /\ pc = "carve" =>
          /\ \A p \in Cells :
                ~IsWall(grid, p[1], p[2]) =>
                    Interior(p[1], p[2]) \/ p = << startNode.x, startNode.y >>
          /\ \A i \in 1..Len(stack) :
                LET candidates == getUnvisitedNeighbors(stack[i], visited)
                IN  \A j \in 1..Len(candidates) :
                       Interior(candidates[j].x, candidates[j].y)
          /\ \A i \in 2..Len(stack) : Interior(stack[i].x, stack[i].y)
    /\ pc = "returned" =>
          \A p \in Cells :
             (~Interior(p[1], p[2]) /\ ~InCornerBlock(p[1], p[2])) =>
                 IsWall(result, p[1], p[2])

\* A returned grid of even width and height, where the last interior column
\* and row have even coordinates next to the boundary.
C28_Witness == pc = "returned" /\ width = 6 /\ height = 8

\* The interior cells with odd x and odd y.
OddInterior ==
    { p \in Cells : Interior(p[1], p[2]) /\ p[1] % 2 = 1 /\ p[2] % 2 = 1 }

\* C29: the carving is complete: when the loop has ended every interior cell
\* with odd x and odd y is reached from (1,1) over carved cells, and in the
\* returned grid (width, height >= 3) each of them is non-wall.
C29_CarvingComplete ==
    (width >= 3 /\ height >= 3) =>
        /\ (pc = "carve" /\ Len(stack) = 0) =>
              OddInterior \subseteq Flood(grid, {<< startNode.x, startNode.y >>})
        /\ pc = "returned" =>
              \A p \in OddInterior : ~IsWall(result, p[1], p[2])

\* The loop has ended on a grid with nine odd interior cells.
C29_Witness ==
    /\ pc = "carve" /\ Len(stack) = 0
    /\ width = 8 /\ height = 7
    /\ Cardinality(OddInterior) = 9

\* C30: the generator's state stays an integer in 0..233279, so next() is in
\* [0, 1), and the index picked among the n candidates (1 <= n <= 4) of an
\* iteration is in 0..n-1: the loop never selects an undefined neighbour.
C30_SeedRange ==
    /\ seed \in 0..(RngMod - 1)
    /\ (pc = "carve" /\ Len(stack) > 0) =>
          LET n == Len(getUnvisitedNeighbors(stack[Len(stack)], visited))
          IN  n > 0 =>
                 /\ n \in 1..4
                 /\ NextSeed(seed) \in 0..(RngMod - 1)
                 /\ RandomIndex(NextSeed(seed), n) \in 0..(n - 1)

\* The generator has advanced and the next iteration picks among several
\* candidates.
C30_Witness ==
    /\ pc = "carve" /\ Len(stack) > 0
    /\ seed # RngSeed
    /\ Len(getUnvisitedNeighbors(stack[Len(stack)], visited)) >= 3

\* The decimal text of a natural number.
DigitText == << "0", "1", "2", "3", "4", "5", "6", "7", "8", "9" >>

RECURSIVE Decimal(_)
Decimal(n) ==
    IF n < 10 THEN DigitText[n + 1]
    ELSE Decimal(n \div 10) \o DigitText[(n % 10) + 1]

\* C21: two positions have the same key exactly when their x and their y are
\* equal, the key of (x, y) is the text "x,y", and an update for one position
\* leaves the row of every other position as it was.
C21_KeyInjective ==
    /\ \A p \in KeyPositions : \A q \in KeyPositions :
          (getStateKey(p) = getStateKey(q)) <=> (p.x = q.x /\ p.y = q.y)
    /\ \A p \in KeyPositions :
          getStateKey(p) = Decimal(p.x) \o "," \o Decimal(p.y)
    /\ [][lastOp'.op = "update" =>
            \A q \in KeyPositions :
               q # lastOp'.pos => StoredRow(q)' = StoredRow(q)]_vars

\* (1, 11) has been updated and (11, 1), whose digits are the same in the
\* same order, still has its zero row.
C21_Witness ==
    /\ lastOp.op = "update"
    /\ lastOp.pos = Pos(1, MaxKeyCoord)
    /\ StoredRow(Pos(1, MaxKeyCoord)) # ZeroRow
    /\ StoredRow(Pos(MaxKeyCoord, 1)) = ZeroRow

\* C22: after the 100 iterations of the training loop, the value of RIGHT at
\* (0,0) is positive and the value of RIGHT at (1,0) is larger than it.
C22_Training ==
    nUpdates = 2 * TrainIterations =>
       /\ StoredRow(Pos(0, 0))[actions[2] + 1] > 0
       /\ StoredRow(Pos(1, 0))[actions[2] + 1] > StoredRow(Pos(0, 0))[actions[2] + 1]

\* The loop has ended, and the value at (0,0) was negative on the way.
C22_Witness ==
    /\ nUpdates = 2 * TrainIterations
    /\ lastOp.op = "update" /\ lastOp.pos = Pos(1, 0)
    /\ StoredRow(Pos(1, 0))[actions[2] + 1] > 99 * Scale

\* A step of the behaviour is a call of runStep.
RunStepCalled == nRunSteps' = nRunSteps + 1

\* The call of runStep finds the episode completed.
EpisodeCompleted == sim.isGoalReached \/ sim.step >= MAX_STEPS

\* C23: the driver calls decayCuriosity() once in each runStep that finds the
\* episode completed, together with one increment of the episode counter, step
\* back at 0 and the agent back at the start; it calls it nowhere else, so the
\* decays made equal the episodes completed.
C23_DecayPerEpisode ==
    /\ [](appPc = "ready" => nDecays = sim.episode - 1)
    /\ [][/\ (RunStepCalled /\ EpisodeCompleted) =>
                 /\ nDecays' = nDecays + 1
                 /\ agentCalls' = << DecayCall >>
                 /\ sim'.episode = sim.episode + 1
                 /\ sim'.step = 0
                 /\ agentPos' = startPos
          /\ (RunStepCalled /\ ~EpisodeCompleted) =>
                 /\ nDecays' = nDecays
                 /\ \A i \in DOMAIN agentCalls' : agentCalls'[i].op # "decayCuriosity"
                 /\ sim'.episode = sim.episode
          /\ ~RunStepCalled => nDecays' = nDecays]_vars

\* The first episode reached the goal of the generated maze and the runStep
\* after it has ended the episode.
C23_Witness ==
    /\ lastOp = DecayCall
    /\ agentCalls = << DecayCall >>
    /\ goalPos = DEFAULT_GOAL
    /\ sim.episode = 2 /\ sim.step = 0
    /\ sim.bestStepCount # << >>
    /\ epsilon < DEFAULT_EPSILON

\* The cell one step from pos in the direction of the action.
Moved(pos, a) ==
    CASE a = 0 -> Pos(pos.x, pos.y - 1)
      [] a = 1 -> Pos(pos.x + 1, pos.y)
      [] a = 2 -> Pos(pos.x, pos.y + 1)
      [] a = 3 -> Pos(pos.x - 1, pos.y)

\* The move to cell t leaves the grid or enters a wall.
Blocked(t) ==
    \/ t.x \notin 0..(MAZE_SIZE - 1)
    \/ t.y \notin 0..(MAZE_SIZE - 1)
    \/ gridInternal[t.y + 1][t.x + 1].isWall

\* C24: a runStep that does not end an episode calls chooseAction(pos) once
\* and then update(pos, action, reward, next) once, pos the position before
\* and next the position after; a blocked move gives next = pos and reward
\* -100, a move onto the goal reward 1000, any other move reward -1.
C24_OneTransition ==
    [][(RunStepCalled /\ ~EpisodeCompleted) =>
          /\ Len(agentCalls') = 2
          /\ nUpdates' = nUpdates + 1
          /\ agentCalls'[1].op = "chooseAction"
          /\ agentCalls'[1].pos = agentPos
          /\ agentCalls'[1].ret \in Actions
          /\ agentCalls'[2].op = "update"
          /\ agentCalls'[2].pos = agentPos
          /\ agentCalls'[2].action = agentCalls'[1].ret
          /\ agentCalls'[2].next = agentPos'
          /\ LET t == Moved(agentPos, agentCalls'[1].ret)
                 reward == agentCalls'[2].reward
             IN  IF Blocked(t)
                 THEN agentPos' = agentPos /\ reward = -100 * Scale
                 ELSE /\ agentPos' = t
                      /\ reward = IF t = goalPos THEN 1000 * Scale ELSE -Scale]_vars

\* The agent ran into the boundary, stepped right and then down onto the
\* goal the designer put at (1,1): -100, -1 and 1000.
C24_Witness ==
    /\ lastOp.op = "update" /\ lastOp.reward = 1000 * Scale
    /\ agentPos = goalPos
    /\ sim.isGoalReached
    /\ sim.step = 3
    /\ sim.totalReward = 899

\* C25: once the generated maze is in place the agent is inside the grid and
\* on a cell that is not a wall.
C25_AgentOnOpenCell ==
    appPc = "ready" =>
       /\ agentPos.x \in 0..(MAZE_SIZE - 1)
       /\ agentPos.y \in 0..(MAZE_SIZE - 1)
       /\ ~gridInternal[agentPos.y + 1][agentPos.x + 1].isWall

\* The agent has run into a wall, stayed, and then moved away from the start.
C25_Witness ==
    /\ appPc = "ready"
    /\ goalPos = DEFAULT_GOAL
    /\ startPos = DEFAULT_START
    /\ sim.totalReward <= -100
    /\ agentPos = Pos(1, 1)
    /\ lastOp.op = "update" /\ lastOp.reward = -Scale

\* C26: step stays within 0..MAX_STEPS, and the runStep that finds step at
\* MAX_STEPS ends the episode instead of making another transition.
C26_StepLimit ==
    /\ [](sim.step \in 0..MAX_STEPS)
    /\ [][(RunStepCalled /\ sim.step = MAX_STEPS) =>
              /\ sim'.episode = sim.episode + 1
              /\ sim'.step = 0
              /\ nUpdates' = nUpdates]_vars

\* An episode of 2000 transitions that never reached the goal has been ended
\* by the 2001st call of runStep.
C26_Witness ==
    /\ nRunSteps = MAX_STEPS + 1
    /\ nUpdates = MAX_STEPS
    /\ sim.episode = 2 /\ sim.step = 0
    /\ sim.bestStepCount = << >>
    /\ lastOp = DecayCall

====
